---- MODULE Spec2Model ----
(***************************************************************************)
(* Model of scripts/pc_specs_checker.py: the score resolvers               *)
(* get_cpu_score / get_gpu_score and check_game_compatibility.             *)
(*                                                                         *)
(* Conventions.                                                            *)
(*   - A Python value that may be None (dict.get of an optional key, a     *)
(*     local not yet assigned) is a sequence: <<>> is None, <<v>> is v.    *)
(*   - clock_speed is a float in GHz.  It is held in sixteenths of a GHz   *)
(*     (40 is 2.5 GHz): such values and their products with small          *)
(*     integers are exact in binary64, so int(cores * clock_speed * 1000)  *)
(*     is the truncation of the exact product.                             *)
(*   - The true divisions of the gap computation are held as exact         *)
(*     reduced fractions <<num, den>> with den > 0; binary64 rounding of   *)
(*     the quotients and of their sum is not modelled.                     *)
(*   - An f-string of the notes is held as the record of the values it     *)
(*     interpolates.                                                       *)
(***************************************************************************)
EXTENDS Integers, Sequences, FiniteSets, TLC

VARIABLES user_hardware, game_requirements, pc, user_cpu_score,
          user_gpu_score, result, prev_settings, upgrades

vars == <<user_hardware, game_requirements, pc, user_cpu_score,
          user_gpu_score, result, prev_settings, upgrades>>

(***************************************************************************)
(* Bounds of the explored inputs.                                          *)
(***************************************************************************)
MaxCores == 8
MaxClock16 == 64
MaxVram == 16
MaxRamUnits == 4
MaxUpgrades == 1

(***************************************************************************)
(* Static score tables.                                                    *)
(***************************************************************************)
CPU_BENCHMARK_DB ==
    ("Intel Core i9-13900K" :> 45000) @@ ("Intel Core i7-13700K" :> 38000) @@
    ("Intel Core i5-13600K" :> 32000) @@ ("Intel Core i9-12900K" :> 40000) @@
    ("Intel Core i7-12700K" :> 35000) @@ ("Intel Core i5-12600K" :> 28000) @@
    ("Intel Core i7-11700K" :> 25000) @@ ("Intel Core i5-11600K" :> 20000) @@
    ("Intel Core i7-10700K" :> 22000) @@ ("Intel Core i5-10400" :> 15000) @@
    ("Intel Core i3-10100" :> 10000) @@
    ("AMD Ryzen 9 7950X" :> 48000) @@ ("AMD Ryzen 9 7900X" :> 42000) @@
    ("AMD Ryzen 7 7700X" :> 35000) @@ ("AMD Ryzen 5 7600X" :> 28000) @@
    ("AMD Ryzen 9 5950X" :> 38000) @@ ("AMD Ryzen 9 5900X" :> 35000) @@
    ("AMD Ryzen 7 5800X" :> 28000) @@ ("AMD Ryzen 5 5600X" :> 22000) @@
    ("AMD Ryzen 7 3700X" :> 20000) @@ ("AMD Ryzen 5 3600" :> 16000) @@
    ("AMD Ryzen 3 3300X" :> 12000)

GPU_BENCHMARK_DB ==
    ("NVIDIA GeForce RTX 4090" :> 35000) @@ ("NVIDIA GeForce RTX 4080" :> 28000) @@
    ("NVIDIA GeForce RTX 4070 Ti" :> 24000) @@ ("NVIDIA GeForce RTX 4070" :> 20000) @@
    ("NVIDIA GeForce RTX 4060 Ti" :> 16000) @@ ("NVIDIA GeForce RTX 4060" :> 14000) @@
    ("NVIDIA GeForce RTX 3090" :> 25000) @@ ("NVIDIA GeForce RTX 3080" :> 22000) @@
    ("NVIDIA GeForce RTX 3070" :> 18000) @@ ("NVIDIA GeForce RTX 3060 Ti" :> 15000) @@
    ("NVIDIA GeForce RTX 3060" :> 13000) @@ ("NVIDIA GeForce RTX 3050" :> 10000) @@
    ("NVIDIA GeForce GTX 1660 Ti" :> 9000) @@ ("NVIDIA GeForce GTX 1660" :> 8000) @@
    ("NVIDIA GeForce GTX 1650" :> 6000) @@
    ("AMD Radeon RX 7900 XTX" :> 30000) @@ ("AMD Radeon RX 7900 XT" :> 26000) @@
    ("AMD Radeon RX 7800 XT" :> 22000) @@ ("AMD Radeon RX 7700 XT" :> 18000) @@
    ("AMD Radeon RX 7600" :> 14000) @@
    ("AMD Radeon RX 6900 XT" :> 23000) @@ ("AMD Radeon RX 6800 XT" :> 20000) @@
    ("AMD Radeon RX 6700 XT" :> 16000) @@ ("AMD Radeon RX 6600 XT" :> 12000) @@
    ("AMD Radeon RX 6600" :> 10000) @@ ("AMD Radeon RX 6500 XT" :> 7000)

(***************************************************************************)
(* Python helpers.                                                         *)
(***************************************************************************)
None == <<>>

Some(v) == <<v>>

\* Truth value of an optional number in a condition: None and 0 are false.
Truthy(x) == x # None /\ x[1] # 0

\* int() of a non-negative quotient a / b: truncation.
IntTrunc(a, b) == a \div b

(***************************************************************************)
(* Score resolver.                                                         *)
(***************************************************************************)
get_cpu_score_estimate_first(cpu_name, cores, clock_speed) ==
    IF Truthy(cores) /\ Truthy(clock_speed)
    THEN IntTrunc(cores[1] * clock_speed[1] * 1000, 16)
    ELSE IF cpu_name \in DOMAIN CPU_BENCHMARK_DB
         THEN CPU_BENCHMARK_DB[cpu_name]
         ELSE 10000

get_cpu_score(cpu_name, cores, clock_speed) ==
    IF cpu_name \in DOMAIN CPU_BENCHMARK_DB
    THEN CPU_BENCHMARK_DB[cpu_name]
    ELSE IF Truthy(cores) /\ Truthy(clock_speed)
         THEN IntTrunc(cores[1] * clock_speed[1] * 1000, 16)
         ELSE 10000

get_gpu_score(gpu_name, vram_gb) ==
    IF gpu_name \in DOMAIN GPU_BENCHMARK_DB
    THEN GPU_BENCHMARK_DB[gpu_name]
    ELSE IF Truthy(vram_gb)
         THEN IF vram_gb[1] >= 16 THEN 20000
              ELSE IF vram_gb[1] >= 12 THEN 15000
              ELSE IF vram_gb[1] >= 8 THEN 12000
              ELSE IF vram_gb[1] >= 6 THEN 9000
              ELSE IF vram_gb[1] >= 4 THEN 6000
              ELSE 3000
         ELSE 8000

(***************************************************************************)
(* Exact fractions for Python's true division.                             *)
(***************************************************************************)
Abs(n) == IF n < 0 THEN -n ELSE n

RECURSIVE GCD(_, _)
GCD(a, b) == IF b = 0 THEN a ELSE GCD(b, a % b)

\* The fraction n / d (d # 0), reduced, with a positive denominator.
Rat(n, d) ==
    LET g == GCD(Abs(n), Abs(d))
        s == IF d < 0 THEN -1 ELSE 1
    IN  <<(s * n) \div g, (s * d) \div g>>

RatAdd(p, q) == Rat(p[1] * q[2] + q[1] * p[2], p[2] * q[2])

\* p >= a / b for integers a, b with b > 0.
RatGeq(p, a, b) == p[1] * b >= a * p[2]

\* p <= a / b for integers a, b with b > 0.
RatLeq(p, a, b) == p[1] * b <= a * p[2]

(***************************************************************************)
(* check_game_compatibility, step by step.                                 *)
(***************************************************************************)
\* Step 1: a pre-supplied score is used unless it is None.
ResolveCpuScore_truthy(user_hw) ==
    IF ~Truthy(user_hw.cpu.score)
    THEN get_cpu_score(user_hw.cpu.name, user_hw.cpu.cores, user_hw.cpu.clock_speed)
    ELSE user_hw.cpu.score[1]

ResolveCpuScore(user_hw) ==
    IF user_hw.cpu.score = None
    THEN get_cpu_score(user_hw.cpu.name, user_hw.cpu.cores, user_hw.cpu.clock_speed)
    ELSE user_hw.cpu.score[1]

ResolveGpuScore(user_hw) ==
    IF user_hw.gpu.score = None
    THEN get_gpu_score(user_hw.gpu.name, user_hw.gpu.vram_gb)
    ELSE user_hw.gpu.score[1]

\* Steps 3 and 4: the six flags.
Flags_strict(cpu, gpu, ram, reqs) ==
    [cpu_meets_min |-> cpu > reqs.minimum.cpu_score,
     gpu_meets_min |-> gpu > reqs.minimum.gpu_score,
     ram_meets_min |-> ram > reqs.minimum.ram_gb,
     cpu_meets_rec |-> cpu > reqs.recommended.cpu_score,
     gpu_meets_rec |-> gpu > reqs.recommended.gpu_score,
     ram_meets_rec |-> ram > reqs.recommended.ram_gb]

Flags(cpu, gpu, ram, reqs) ==
    [cpu_meets_min |-> cpu >= reqs.minimum.cpu_score,
     gpu_meets_min |-> gpu >= reqs.minimum.gpu_score,
     ram_meets_min |-> ram >= reqs.minimum.ram_gb,
     cpu_meets_rec |-> cpu >= reqs.recommended.cpu_score,
     gpu_meets_rec |-> gpu >= reqs.recommended.gpu_score,
     ram_meets_rec |-> ram >= reqs.recommended.ram_gb]

\* Step 5.
meets_minimum(f) == f.cpu_meets_min /\ f.gpu_meets_min /\ f.ram_meets_min

meets_recommended(f) == f.cpu_meets_rec /\ f.gpu_meets_rec /\ f.ram_meets_rec

\* The bottlenecks list; each entry is the f-string "PART (yours: Y, need: N)",
\* with the unit that follows both numbers.
Bottlenecks_no_ram(f, cpu, gpu, ram, min_reqs) ==
    (IF ~f.cpu_meets_min
     THEN <<[part |-> "CPU", yours |-> cpu, need |-> min_reqs.cpu_score, unit |-> ""]>>
     ELSE <<>>)
    \o (IF ~f.gpu_meets_min
        THEN <<[part |-> "GPU", yours |-> gpu, need |-> min_reqs.gpu_score, unit |-> ""]>>
        ELSE <<>>)

Bottlenecks(f, cpu, gpu, ram, min_reqs) ==
    (IF ~f.cpu_meets_min
     THEN <<[part |-> "CPU", yours |-> cpu, need |-> min_reqs.cpu_score, unit |-> ""]>>
     ELSE <<>>)
    \o (IF ~f.gpu_meets_min
        THEN <<[part |-> "GPU", yours |-> gpu, need |-> min_reqs.gpu_score, unit |-> ""]>>
        ELSE <<>>)
    \o (IF ~f.ram_meets_min
        THEN <<[part |-> "RAM", yours |-> ram, need |-> min_reqs.ram_gb, unit |-> "GB"]>>
        ELSE <<>>)

\* The details dict, the same literal in the three return statements.
Details_copy_paste(f, cpu, gpu, ram) ==
    [cpu_meets_min |-> f.cpu_meets_min, cpu_meets_rec |-> f.cpu_meets_rec,
     gpu_meets_min |-> f.gpu_meets_min, gpu_meets_rec |-> f.gpu_meets_min,
     ram_meets_min |-> f.ram_meets_min, ram_meets_rec |-> f.ram_meets_rec,
     user_scores |-> [cpu |-> cpu, gpu |-> gpu, ram |-> ram]]

Details(f, cpu, gpu, ram) ==
    [cpu_meets_min |-> f.cpu_meets_min, cpu_meets_rec |-> f.cpu_meets_rec,
     gpu_meets_min |-> f.gpu_meets_min, gpu_meets_rec |-> f.gpu_meets_rec,
     ram_meets_min |-> f.ram_meets_min, ram_meets_rec |-> f.ram_meets_rec,
     user_scores |-> [cpu |-> cpu, gpu |-> gpu, ram |-> ram]]

\* One gap, (user - min) / (rec - min); the caller has ruled out rec = min.
Gap_from_rec(user, min, rec) == Rat(user - rec, rec - min)

Gap(user, min, rec) == Rat(user - min, rec - min)

\* Whether one of the three divisions divides by zero.
DividesByZero(reqs) ==
    \/ reqs.recommended.cpu_score = reqs.minimum.cpu_score
    \/ reqs.recommended.gpu_score = reqs.minimum.gpu_score
    \/ reqs.recommended.ram_gb = reqs.minimum.ram_gb

cpu_gap(cpu, reqs) == Gap(cpu, reqs.minimum.cpu_score, reqs.recommended.cpu_score)

gpu_gap(gpu, reqs) == Gap(gpu, reqs.minimum.gpu_score, reqs.recommended.gpu_score)

ram_gap(ram, reqs) == Gap(ram, reqs.minimum.ram_gb, reqs.recommended.ram_gb)

avg_gap(cpu, gpu, ram, reqs) ==
    LET sum == RatAdd(RatAdd(cpu_gap(cpu, reqs), gpu_gap(gpu, reqs)), ram_gap(ram, reqs))
    IN  Rat(sum[1], sum[2] * 3)

\* The whole function: the returned dict, or the exception it raises.
check_game_compatibility(user_hw, reqs) ==
    LET cpu == ResolveCpuScore(user_hw)
        gpu == ResolveGpuScore(user_hw)
        ram == user_hw.ram_gb
        f == Flags(cpu, gpu, ram, reqs)
    IN  IF ~meets_minimum(f)
        THEN [can_run |-> FALSE,
              settings |-> "Cannot Run",
              notes |-> [text |-> "Hardware below minimum requirements. Bottlenecks: ",
                         joined |-> Bottlenecks(f, cpu, gpu, ram, reqs.minimum)],
              details |-> Details(f, cpu, gpu, ram)]
        ELSE IF meets_recommended(f)
        THEN [can_run |-> TRUE,
              settings |-> "High",
              notes |-> [text |-> "Your hardware meets or exceeds recommended requirements. Enjoy high settings!",
                         joined |-> <<>>],
              details |-> Details(f, cpu, gpu, ram)]
        ELSE IF DividesByZero(reqs)
        THEN [raised |-> "ZeroDivisionError"]
        ELSE IF RatGeq(avg_gap(cpu, gpu, ram, reqs), 1, 2)
        THEN [can_run |-> TRUE,
              settings |-> "Medium",
              notes |-> [text |-> "Your hardware is between minimum and recommended. Expect medium settings.",
                         joined |-> <<>>],
              details |-> Details(f, cpu, gpu, ram)]
        ELSE [can_run |-> TRUE,
              settings |-> "Low",
              notes |-> [text |-> "Your hardware meets minimum requirements. Expect low settings for smooth gameplay.",
                         joined |-> <<>>],
              details |-> Details(f, cpu, gpu, ram)]

Raised(r) == "raised" \in DOMAIN r

(***************************************************************************)
(* Inputs.                                                                 *)
(***************************************************************************)
Opt(S) == {None} \cup {Some(v) : v \in S}

\* Both tables in full, a name in neither, and a table name in another case
\* (the lookup is exact and case-sensitive).
CpuNames == DOMAIN CPU_BENCHMARK_DB \cup {"Unknown CPU", "amd ryzen 5 3600"}

GpuNames == DOMAIN GPU_BENCHMARK_DB \cup {"Unknown GPU", "nvidia geforce rtx 3060"}

ResolverCpus ==
    [name : CpuNames, cores : Opt(0..MaxCores), clock_speed : Opt(0..MaxClock16),
     score : {None}]

ResolverGpus == [name : GpuNames, vram_gb : Opt(0..MaxVram), score : {None}]

\* The probes held fixed while the other component ranges: a table CPU at
\* 6 cores and 3.75 GHz, a table GPU with 12 GB.
ProbeCpu ==
    [name |-> "AMD Ryzen 5 5600X", cores |-> Some(6), clock_speed |-> Some(60),
     score |-> None]

ProbeGpu == [name |-> "NVIDIA GeForce RTX 3060", vram_gb |-> Some(12), score |-> None]

\* The requirements of the module's example.
ExampleReqs ==
    [minimum |-> [cpu_score |-> 16000, gpu_score |-> 9000, ram_gb |-> 8],
     recommended |-> [cpu_score |-> 25000, gpu_score |-> 18000, ram_gb |-> 16]]

\* User components of the evaluation runs: a table name or not, secondary
\* attributes or not, a supplied score (0 included) or not.
UserCpus ==
    {[name |-> n, cores |-> a[1], clock_speed |-> a[2], score |-> s] :
        n \in {"AMD Ryzen 5 3600", "Unknown CPU"},
        a \in {<<None, None>>, <<Some(6), Some(32)>>},
        s \in Opt({0, 25000})}

UserGpus ==
    [name : {"NVIDIA GeForce GTX 1660 Ti", "Unknown GPU"}, vram_gb : Opt({8}),
     score : Opt({0, 18000})]

UserRams == {4 * k : k \in 1..MaxRamUnits}

ReqTiers(cpus, gpus, rams) == [cpu_score : cpus, gpu_score : gpus, ram_gb : rams]

\* Requirement profiles: every (minimum, recommended) pair over two values per
\* dimension, so minimum < recommended, minimum = recommended and
\* minimum > recommended all occur on each dimension.
Requirements ==
    [minimum : ReqTiers({10000, 16000}, {9000, 18000}, {8, 16}),
     recommended : ReqTiers({10000, 16000}, {9000, 18000}, {8, 16})]

Tiers == {"Cannot Run", "Low", "Medium", "High"}

(***************************************************************************)
(* Evaluation runs: one call of check_game_compatibility, then possibly a  *)
(* second call for the same requirements by a user with one larger score.  *)
(***************************************************************************)
Init ==
    /\ user_hardware \in [cpu : UserCpus, gpu : UserGpus, ram_gb : UserRams]
    /\ game_requirements \in Requirements
    /\ pc = "call"
    /\ user_cpu_score = None
    /\ user_gpu_score = None
    /\ result = None
    /\ prev_settings = None
    /\ upgrades = 0

CheckGameCompatibility ==
    /\ pc = "call"
    /\ user_cpu_score' = Some(ResolveCpuScore(user_hardware))
    /\ user_gpu_score' = Some(ResolveGpuScore(user_hardware))
    /\ result' = check_game_compatibility(user_hardware, game_requirements)
    /\ pc' = IF Raised(result') THEN "raised" ELSE "returned"
    /\ UNCHANGED <<user_hardware, game_requirements, prev_settings, upgrades>>

\* The caller comes back after a result with hardware changed to new_hw.
CallAgain(new_hw) ==
    /\ pc = "returned"
    /\ upgrades < MaxUpgrades
    /\ user_hardware' = new_hw
    /\ prev_settings' = Some(result.settings)
    /\ upgrades' = upgrades + 1
    /\ pc' = "call"
    /\ user_cpu_score' = None
    /\ user_gpu_score' = None
    /\ result' = None
    /\ UNCHANGED game_requirements

UpgradeCpu ==
    \E c \in UserCpus :
        LET new_hw == [user_hardware EXCEPT !.cpu = c]
        IN  /\ ResolveCpuScore(new_hw) > ResolveCpuScore(user_hardware)
            /\ CallAgain(new_hw)

UpgradeGpu ==
    \E g \in UserGpus :
        LET new_hw == [user_hardware EXCEPT !.gpu = g]
        IN  /\ ResolveGpuScore(new_hw) > ResolveGpuScore(user_hardware)
            /\ CallAgain(new_hw)

UpgradeRam ==
    \E r \in UserRams :
        /\ r > user_hardware.ram_gb
        /\ CallAgain([user_hardware EXCEPT !.ram_gb = r])

Next == CheckGameCompatibility \/ UpgradeCpu \/ UpgradeGpu \/ UpgradeRam

Spec == Init /\ [][Next]_vars

(***************************************************************************)
(* Resolver runs: get_cpu_score, then get_gpu_score, called directly on    *)
(* the name and secondary attributes of a component.                       *)
(***************************************************************************)
InitResolver ==
    /\ user_hardware \in
          [cpu : ResolverCpus, gpu : {ProbeGpu}, ram_gb : {16}]
          \cup [cpu : {ProbeCpu}, gpu : ResolverGpus, ram_gb : {16}]
    /\ game_requirements = ExampleReqs
    /\ pc = "call"
    /\ user_cpu_score = None
    /\ user_gpu_score = None
    /\ result = None
    /\ prev_settings = None
    /\ upgrades = 0

GetCpuScore ==
    /\ pc = "call"
    /\ user_cpu_score' = Some(get_cpu_score(user_hardware.cpu.name,
                                            user_hardware.cpu.cores,
                                            user_hardware.cpu.clock_speed))
    /\ pc' = "cpu_done"
    /\ UNCHANGED <<user_hardware, game_requirements, user_gpu_score, result,
                   prev_settings, upgrades>>

GetGpuScore ==
    /\ pc = "cpu_done"
    /\ user_gpu_score' = Some(get_gpu_score(user_hardware.gpu.name,
                                            user_hardware.gpu.vram_gb))
    /\ pc' = "gpu_done"
    /\ UNCHANGED <<user_hardware, game_requirements, user_cpu_score, result,
                   prev_settings, upgrades>>

NextResolver == GetCpuScore \/ GetGpuScore

SpecResolver == InitResolver /\ [][NextResolver]_vars

(***************************************************************************)
(* Vocabulary of the properties.                                           *)
(***************************************************************************)
Called == pc \in {"returned", "raised"}

Returned == pc = "returned"

MinReqs == game_requirements.minimum

RecReqs == game_requirements.recommended

\* The user's three values, as the call resolved them.
UserCpu == user_cpu_score[1]

UserGpu == user_gpu_score[1]

UserRam == user_hardware.ram_gb

AllMinimumsMet ==
    UserCpu >= MinReqs.cpu_score /\ UserGpu >= MinReqs.gpu_score /\ UserRam >= MinReqs.ram_gb

AllRecommendedMet ==
    UserCpu >= RecReqs.cpu_score /\ UserGpu >= RecReqs.gpu_score /\ UserRam >= RecReqs.ram_gb

MinBelowRecEverywhere ==
    /\ MinReqs.cpu_score < RecReqs.cpu_score
    /\ MinReqs.gpu_score < RecReqs.gpu_score
    /\ MinReqs.ram_gb < RecReqs.ram_gb

MinAtMostRecEverywhere ==
    /\ MinReqs.cpu_score <= RecReqs.cpu_score
    /\ MinReqs.gpu_score <= RecReqs.gpu_score
    /\ MinReqs.ram_gb <= RecReqs.ram_gb

\* The dimensions strictly below their minimum, each with the two values.
FailingDimensions ==
    {d \in {[part |-> "CPU", yours |-> UserCpu, need |-> MinReqs.cpu_score],
            [part |-> "GPU", yours |-> UserGpu, need |-> MinReqs.gpu_score],
            [part |-> "RAM", yours |-> UserRam, need |-> MinReqs.ram_gb]} :
        d.yours < d.need}

ListedDimensions ==
    {[part |-> result.notes.joined[i].part,
      yours |-> result.notes.joined[i].yours,
      need |-> result.notes.joined[i].need] : i \in 1..Len(result.notes.joined)}

\* The call took the branch that computes the gaps.
GapsComputed == Returned /\ result.settings \in {"Medium", "Low"}

TierRank(t) ==
    CASE t = "Cannot Run" -> 0
      [] t = "Low" -> 1
      [] t = "Medium" -> 2
      [] t = "High" -> 3

(***************************************************************************)
(* C1.  If at least one of the user's resolved cpu score, gpu score or     *)
(* ram_gb is strictly below its minimum, the call returns can_run = false  *)
(* and settings = "Cannot Run", and the notes list exactly the failing     *)
(* dimensions, once each, with the user's value and the required minimum.  *)
(***************************************************************************)
C1_CannotRunListsFailingDimensions ==
    (Called /\ FailingDimensions # {}) =>
        /\ Returned
        /\ result.can_run = FALSE
        /\ result.settings = "Cannot Run"
        /\ ListedDimensions = FailingDimensions
        /\ Len(result.notes.joined) = Cardinality(FailingDimensions)

\* RAM alone is below its minimum; CPU and GPU meet theirs.
C1_Witness ==
    /\ Returned
    /\ UserRam < MinReqs.ram_gb
    /\ UserCpu >= MinReqs.cpu_score
    /\ UserGpu >= MinReqs.gpu_score
    /\ Len(result.notes.joined) = 1

(***************************************************************************)
(* C2.  With minimum <= recommended on each dimension, a user whose three  *)
(* values equal the recommended values gets settings = "High" and          *)
(* can_run = true; more generally the result is "High" whenever all three  *)
(* minimum comparisons and all three recommended comparisons hold.         *)
(***************************************************************************)
C2_HighAtRecommendedBoundary ==
    Called =>
        /\ ( /\ MinAtMostRecEverywhere
             /\ UserCpu = RecReqs.cpu_score
             /\ UserGpu = RecReqs.gpu_score
             /\ UserRam = RecReqs.ram_gb )
           => (Returned /\ result.settings = "High" /\ result.can_run = TRUE)
        /\ (AllMinimumsMet /\ AllRecommendedMet)
           => (Returned /\ result.settings = "High" /\ result.can_run = TRUE)

\* Every value sits exactly on a recommended value above the minimum.
C2_Witness ==
    /\ Returned
    /\ MinBelowRecEverywhere
    /\ UserCpu = RecReqs.cpu_score
    /\ UserGpu = RecReqs.gpu_score
    /\ UserRam = RecReqs.ram_gb
    /\ result.settings = "High"

(***************************************************************************)
(* C3.  When the user meets all three minimums but not all three           *)
(* recommended values, the call returns can_run = true, with settings =    *)
(* "Medium" if the mean of the three gaps is at least 1/2 and "Low"        *)
(* otherwise.                                                              *)
(***************************************************************************)
C3_MediumOrLowByMeanGap ==
    (Called /\ AllMinimumsMet /\ ~AllRecommendedMet) =>
        /\ Returned
        /\ result.can_run = TRUE
        /\ result.settings \in {"Medium", "Low"}
        /\ ~DividesByZero(game_requirements) =>
              LET sum == RatAdd(RatAdd(Rat(UserCpu - MinReqs.cpu_score,
                                           RecReqs.cpu_score - MinReqs.cpu_score),
                                       Rat(UserGpu - MinReqs.gpu_score,
                                           RecReqs.gpu_score - MinReqs.gpu_score)),
                                Rat(UserRam - MinReqs.ram_gb,
                                    RecReqs.ram_gb - MinReqs.ram_gb))
              IN  result.settings = IF 2 * sum[1] >= 3 * sum[2] THEN "Medium" ELSE "Low"

(***************************************************************************)
(* C4.  If some dimension has recommended = minimum and the user meets the *)
(* minimum on every dimension, the call returns a result with one of the   *)
(* four tier labels and raises no division-by-zero error.                  *)
(***************************************************************************)
C4_NoDivisionByZero ==
    (Called /\ DividesByZero(game_requirements) /\ AllMinimumsMet) =>
        (Returned /\ result.settings \in Tiers)

(***************************************************************************)
(* C5.  Monotonicity: for fixed requirements, a second user equal to the   *)
(* first except for one larger value gets a tier that is not lower than    *)
(* the first user's (Cannot Run < Low < Medium < High).                    *)
(***************************************************************************)
C5_Monotone ==
    (Called /\ prev_settings # None) =>
        (Returned /\ TierRank(result.settings) >= TierRank(prev_settings[1]))

(***************************************************************************)
(* C6.  For a name that is a key of its table, get_cpu_score and           *)
(* get_gpu_score return the table value, whatever cores, clock_speed and   *)
(* vram_gb are, supplied or absent.                                        *)
(***************************************************************************)
C6_TableValueWins ==
    /\ (pc \in {"cpu_done", "gpu_done"} /\ user_hardware.cpu.name \in DOMAIN CPU_BENCHMARK_DB)
       => user_cpu_score = Some(CPU_BENCHMARK_DB[user_hardware.cpu.name])
    /\ (pc = "gpu_done" /\ user_hardware.gpu.name \in DOMAIN GPU_BENCHMARK_DB)
       => user_gpu_score = Some(GPU_BENCHMARK_DB[user_hardware.gpu.name])

\* Both names are table keys and both estimates would differ from the table.
C6_Witness ==
    /\ pc = "gpu_done"
    /\ user_hardware.cpu.name = "Intel Core i5-10400"
    /\ user_hardware.cpu.cores = Some(4)
    /\ user_hardware.cpu.clock_speed = Some(40)
    /\ user_cpu_score = Some(15000)
    /\ user_hardware.gpu.name = "NVIDIA GeForce RTX 3060"
    /\ user_hardware.gpu.vram_gb = Some(12)
    /\ user_gpu_score = Some(13000)

(***************************************************************************)
(* C7.  For a name in neither table: with the secondary attributes         *)
(* supplied the score is the estimate (CPU: cores * clock_speed * 1000     *)
(* truncated; GPU: the band of vram_gb, any supplied value under 4 giving  *)
(* 3000), and with none supplied it is the default (CPU 10000, GPU 8000).  *)
(***************************************************************************)
C7_EstimateWhenSupplied ==
    /\ (pc \in {"cpu_done", "gpu_done"} /\ user_hardware.cpu.name \notin DOMAIN CPU_BENCHMARK_DB)
       => LET cores == user_hardware.cpu.cores
              clock == user_hardware.cpu.clock_speed
          IN  /\ (cores # None /\ clock # None)
                 => user_cpu_score = Some((cores[1] * clock[1] * 1000) \div 16)
              /\ (cores = None /\ clock = None) => user_cpu_score = Some(10000)
    /\ (pc = "gpu_done" /\ user_hardware.gpu.name \notin DOMAIN GPU_BENCHMARK_DB)
       => LET vram == user_hardware.gpu.vram_gb
          IN  /\ vram # None
                 => user_gpu_score =
                       Some(CASE vram[1] >= 16 -> 20000
                              [] vram[1] \in 12..15 -> 15000
                              [] vram[1] \in 8..11 -> 12000
                              [] vram[1] \in 6..7 -> 9000
                              [] vram[1] \in 4..5 -> 6000
                              [] OTHER -> 3000)
              /\ vram = None => user_gpu_score = Some(8000)

(***************************************************************************)
(* C8.  A CPU or GPU component that carries a score (0 included) has that  *)
(* value used verbatim, in the comparisons and in details.user_scores,     *)
(* whatever its name and secondary attributes are: the same call on any    *)
(* other component with that score gives the same result.                  *)
(***************************************************************************)
C8_SuppliedScoreVerbatim ==
    Called =>
        /\ user_hardware.cpu.score # None =>
              /\ user_cpu_score = user_hardware.cpu.score
              /\ Returned =>
                    /\ result.details.user_scores.cpu = user_hardware.cpu.score[1]
                    /\ result.details.cpu_meets_min
                          = (user_hardware.cpu.score[1] >= MinReqs.cpu_score)
                    /\ result.details.cpu_meets_rec
                          = (user_hardware.cpu.score[1] >= RecReqs.cpu_score)
              /\ \A c \in UserCpus :
                    c.score = user_hardware.cpu.score =>
                       check_game_compatibility([user_hardware EXCEPT !.cpu = c],
                                                game_requirements) = result
        /\ user_hardware.gpu.score # None =>
              /\ user_gpu_score = user_hardware.gpu.score
              /\ Returned =>
                    /\ result.details.user_scores.gpu = user_hardware.gpu.score[1]
                    /\ result.details.gpu_meets_min
                          = (user_hardware.gpu.score[1] >= MinReqs.gpu_score)
                    /\ result.details.gpu_meets_rec
                          = (user_hardware.gpu.score[1] >= RecReqs.gpu_score)
              /\ \A g \in UserGpus :
                    g.score = user_hardware.gpu.score =>
                       check_game_compatibility([user_hardware EXCEPT !.gpu = g],
                                                game_requirements) = result

\* A table CPU with both attributes carries the score 0.
C8_Witness ==
    /\ Returned
    /\ user_hardware.cpu.name \in DOMAIN CPU_BENCHMARK_DB
    /\ user_hardware.cpu.cores # None
    /\ user_hardware.cpu.clock_speed # None
    /\ user_hardware.cpu.score = Some(0)
    /\ result.details.user_scores.cpu = 0
    /\ user_hardware.gpu.score = Some(18000)

(***************************************************************************)
(* C9.  Every returned result, whichever branch produced it, has a details *)
(* record with the six flags and the three resolved user scores, and each  *)
(* flag is the non-strict comparison of the user's value with the          *)
(* corresponding minimum or recommended value.                             *)
(***************************************************************************)
C9_DetailsComplete ==
    Returned =>
        /\ DOMAIN result.details =
              {"cpu_meets_min", "cpu_meets_rec", "gpu_meets_min", "gpu_meets_rec",
               "ram_meets_min", "ram_meets_rec", "user_scores"}
        /\ result.details.user_scores = [cpu |-> UserCpu, gpu |-> UserGpu, ram |-> UserRam]
        /\ result.details.cpu_meets_min = (UserCpu >= MinReqs.cpu_score)
        /\ result.details.gpu_meets_min = (UserGpu >= MinReqs.gpu_score)
        /\ result.details.ram_meets_min = (UserRam >= MinReqs.ram_gb)
        /\ result.details.cpu_meets_rec = (UserCpu >= RecReqs.cpu_score)
        /\ result.details.gpu_meets_rec = (UserGpu >= RecReqs.gpu_score)
        /\ result.details.ram_meets_rec = (UserRam >= RecReqs.ram_gb)

\* A second call in the gap branch, after a first call that could not run:
\* the GPU meets its minimum and not its recommended value.
C9_Witness ==
    /\ Returned
    /\ prev_settings = Some("Cannot Run")
    /\ result.settings = "Low"
    /\ result.details.gpu_meets_min
    /\ ~result.details.gpu_meets_rec
    /\ user_hardware.ram_gb = RecReqs.ram_gb

====
